---- MODULE Spec2Model ----
(***************************************************************************)
(* Model of the Christmas tree widget (src/src/main.rs): the scene state   *)
(* (lights, snowflakes), the druid event handler (WindowConnected, Timer), *)
(* layout and paint.                                                       *)
(*                                                                         *)
(* The program computes in f64.  A number is modelled as the exact dyadic  *)
(* rational it denotes: a sign and a magnitude held as little-endian limbs *)
(* of LimbBits bits, in units of 2^-(LimbBits*FracLimbs).  Every f64       *)
(* operation of the source is the exact operation followed by IEEE-754     *)
(* round-to-nearest-even to MantBits significant bits (Rnd).               *)
(***************************************************************************)
EXTENDS Integers, Sequences, FiniteSets, TLC

(***************************************************************************)
(* f64 arithmetic                                                          *)
(***************************************************************************)
MantBits == 53
LimbBits == 15
FracLimbs == 5
NLimbs == FracLimbs + 1
Base == 2^LimbBits
Limbs == 1..NLimbs

ZeroMag == [i \in Limbs |-> 0]

RECURSIVE AddFrom(_, _, _, _)
AddFrom(a, b, i, c) ==
    IF i > NLimbs THEN <<>>
    ELSE LET t == a[i] + b[i] + c
         IN  <<t % Base>> \o AddFrom(a, b, i + 1, t \div Base)

MagAdd(a, b) == AddFrom(a, b, 1, 0)

RECURSIVE SubFrom(_, _, _, _)
SubFrom(a, b, i, c) ==
    IF i > NLimbs THEN <<>>
    ELSE LET t == a[i] - b[i] - c
         IN  IF t < 0 THEN <<t + Base>> \o SubFrom(a, b, i + 1, 1)
                      ELSE <<t>> \o SubFrom(a, b, i + 1, 0)

\* a - b for a >= b
MagSub(a, b) == SubFrom(a, b, 1, 0)

RECURSIVE CmpFrom(_, _, _)
CmpFrom(a, b, i) ==
    IF i = 0 THEN 0
    ELSE IF a[i] < b[i] THEN -1
    ELSE IF a[i] > b[i] THEN 1
    ELSE CmpFrom(a, b, i - 1)

\* -1, 0, 1 as a < b, a = b, a > b
MagCmp(a, b) == CmpFrom(a, b, NLimbs)

RECURSIVE MulFrom(_, _, _, _)
MulFrom(a, k, i, c) ==
    IF i > NLimbs THEN <<>>
    ELSE LET t == a[i] * k + c
         IN  <<t % Base>> \o MulFrom(a, k, i + 1, t \div Base)

\* a * k for a small natural k
MagMulInt(a, k) == MulFrom(a, k, 1, 0)

RECURSIVE RemFrom(_, _, _, _)
RemFrom(a, k, i, r) ==
    IF i = 0 THEN r ELSE RemFrom(a, k, i - 1, (r * Base + a[i]) % k)

RECURSIVE DivFrom(_, _, _, _)
DivFrom(a, k, i, r) ==
    IF i = 0 THEN <<>>
    ELSE LET t == r * Base + a[i]
         IN  DivFrom(a, k, i - 1, t % k) \o <<t \div k>>

\* floor(a / k) and whether the division left a remainder
MagDivInt(a, k) == DivFrom(a, k, NLimbs, 0)
MagRemInt(a, k) == RemFrom(a, k, NLimbs, 0)

RECURSIVE BitLen(_)
BitLen(n) == IF n = 0 THEN 0 ELSE 1 + BitLen(n \div 2)

TopLimb(a) ==
    LET S == {i \in Limbs : a[i] # 0}
    IN  IF S = {} THEN 0 ELSE CHOOSE i \in S : \A j \in S : j <= i

\* index (from 0) of the most significant set bit of a nonzero magnitude
MsbIndex(a) == LimbBits * (TopLimb(a) - 1) + BitLen(a[TopLimb(a)]) - 1

Bit(a, i) == (a[(i \div LimbBits) + 1] \div 2^(i % LimbBits)) % 2

\* some bit strictly below bit i is set
LowNonZero(a, i) ==
    \/ \E j \in 1..(i \div LimbBits) : a[j] # 0
    \/ a[(i \div LimbBits) + 1] % 2^(i % LimbBits) # 0

\* a with the bits below bit c cleared
ClearLow(a, c) ==
    [j \in Limbs |->
        IF j < (c \div LimbBits) + 1 THEN 0
        ELSE IF j = (c \div LimbBits) + 1
             THEN (a[j] \div 2^(c % LimbBits)) * 2^(c % LimbBits)
             ELSE a[j]]

Pow2Mag(c) ==
    [j \in Limbs |-> IF j = (c \div LimbBits) + 1 THEN 2^(c % LimbBits) ELSE 0]

\* IEEE-754 round to nearest, ties to even, to MantBits significant bits;
\* sticky: the exact value lies strictly above a (a division's remainder)
RoundMag(a, sticky) ==
    IF ~sticky /\ \A j \in 1..(NLimbs - MantBits \div LimbBits) : a[j] = 0
    THEN a   \* at most LimbBits * (MantBits \div LimbBits) bits: exact
    ELSE LET c == MsbIndex(a) - (MantBits - 1)
         IN  IF c <= 0 THEN a
             ELSE LET guard == Bit(a, c - 1) = 1
                      st    == sticky \/ LowNonZero(a, c - 1)
                      odd   == Bit(a, c) = 1
                      t     == ClearLow(a, c)
                  IN  IF guard /\ (st \/ odd) THEN MagAdd(t, Pow2Mag(c)) ELSE t

(***************************************************************************)
(* Signed exact values                                                     *)
(***************************************************************************)
Abs(k) == IF k < 0 THEN -k ELSE k

Val(neg, mag) == [neg |-> neg /\ mag # ZeroMag, mag |-> mag]

FromInt(k) == Val(k < 0, [i \in Limbs |-> IF i = NLimbs THEN Abs(k) ELSE 0])

RNeg(x) == Val(~x.neg, x.mag)

\* exact x + y
RAdd(x, y) ==
    IF x.neg = y.neg THEN Val(x.neg, MagAdd(x.mag, y.mag))
    ELSE IF MagCmp(x.mag, y.mag) >= 0 THEN Val(x.neg, MagSub(x.mag, y.mag))
    ELSE Val(y.neg, MagSub(y.mag, x.mag))

RSub(x, y) == RAdd(x, RNeg(y))

\* exact x * k for an integer k
RMulInt(x, k) == Val(x.neg # (k < 0), MagMulInt(x.mag, Abs(k)))

RECURSIVE MagShr(_, _)
MagShr(a, n) ==
    IF n < LimbBits THEN MagDivInt(a, 2^n)
    ELSE MagShr(MagDivInt(a, 2^(LimbBits - 1)), n - (LimbBits - 1))

\* exact x / 2^n (the dropped bits are zero for every value that occurs)
RShr(x, n) == Val(x.neg, MagShr(x.mag, n))

RLt(x, y) ==
    IF x.neg # y.neg THEN x.neg
    ELSE IF x.neg THEN MagCmp(x.mag, y.mag) > 0
    ELSE MagCmp(x.mag, y.mag) < 0

RLe(x, y) == ~RLt(y, x)

Rnd(x) == Val(x.neg, RoundMag(x.mag, FALSE))

\* the f64 operations of the source; k is an f64 with an integer value
FAdd(x, y) == Rnd(RAdd(x, y))
FSub(x, y) == Rnd(RSub(x, y))
FMulInt(x, k) == Rnd(RMulInt(x, k))
FDivInt(x, k) ==
    Val(x.neg # (k < 0),
        RoundMag(MagDivInt(x.mag, Abs(k)), MagRemInt(x.mag, Abs(k)) # 0))
FMin(x, y) == IF RLt(y, x) THEN y ELSE x


(***************************************************************************)
(* The scene's constants                                                   *)
(***************************************************************************)
BASE_WIDTH == 600
BASE_HEIGHT == 600
NumLights == 50
NumSnowflakes == 100
\* TimerToken::INVALID
INVALID == 0

(***************************************************************************)
(* Bounds of the model                                                     *)
(***************************************************************************)
\* the seeds thread_rng() may start from
NumSeeds == 2
\* rng.gen::<f64>() returns floor(k * 2^53 / UnitDenominator) / 2^53
UnitDenominator == 6
\* gen_range(lo..hi) returns lo + (hi - lo) * k / 2^GridBits
GridBits == 3
\* timer firings that run a tick, and WindowConnected deliveries
MaxTicks == 2
MaxConnects == 2
\* readings of the monotonic clock are 0..MaxInstant
MaxInstant == 1
\* the ticks of the long run, which has one WindowConnected
MaxLongTicks == 250

Seeds == {7919 * k : k \in 1..NumSeeds}
Instants == 0..MaxInstant

(***************************************************************************)
(* thread_rng(): one generator per thread, seeded by the system.  Only the *)
(* seed is free; every draw advances the generator.                        *)
(***************************************************************************)
NextRng(s) == (s * 25173 + 13849) % 65536

Bits(s) == s \div 256

\* rng.gen::<f64>(): a 53-bit integer times 2^-53, in [0, 1)
gen(s) ==
    Val(FALSE, ClearLow(MagDivInt(FromInt(Bits(s) % UnitDenominator).mag,
                                  UnitDenominator),
                        LimbBits * FracLimbs - MantBits))

\* rng.gen_range(lo..hi): a value of [lo, hi)
gen_range(s, lo, hi) ==
    FAdd(FromInt(lo),
         FMulInt(RShr(FromInt(Bits(s) % 2^GridBits), GridBits), hi - lo))

\* Color::rgb(r, g, b): each channel is round(255 * c), as 8 bits
Channel(c) ==
    LET t == FMulInt(c, 255)
    IN  t.mag[NLimbs] + (IF t.mag[NLimbs - 1] >= Base \div 2 THEN 1 ELSE 0)

rgb(r, g, b) == <<Channel(r), Channel(g), Channel(b)>>
rgb8(r, g, b) == <<r, g, b>>
WHITE == rgb8(255, 255, 255)

Point(x, y) == [x |-> x, y |-> y]

\* the corners of the tree, in base coordinates
top == Point(FromInt(BASE_WIDTH \div 2), FromInt(50))
left == Point(FromInt(100), FromInt(BASE_HEIGHT - 50))
right == Point(FromInt(BASE_WIDTH - 100), FromInt(BASE_HEIGHT - 50))

\* left.x - top.x and the like: differences of the corners, exact integers
IntOf(v) == IF v.neg THEN -v.mag[NLimbs] ELSE v.mag[NLimbs]
Delta(a, b) == IntOf(RSub(a, b))

(***************************************************************************)
(* generate_lights, generate_snowflakes                                    *)
(***************************************************************************)
\* a faulty variant: the draws taken as they come, never folded
Fold_never(r1, r2) == <<r1, r2>>

\* the barycentric fold: (u, v) from the draws r1, r2
Fold(r1, r2) ==
    IF RLt(FromInt(1), FAdd(r1, r2))
    THEN <<FSub(FromInt(1), r1), FSub(FromInt(1), r2)>>
    ELSE <<r1, r2>>

LightPosition(r1, r2) ==
    LET uv == Fold(r1, r2)
        u  == uv[1]
        v  == uv[2]
    IN  Point(FAdd(FAdd(top.x, FMulInt(u, Delta(left.x, top.x))),
                   FMulInt(v, Delta(right.x, top.x))),
              FAdd(FAdd(top.y, FMulInt(u, Delta(left.y, top.y))),
                   FMulInt(v, Delta(right.y, top.y))))

\* Color::rgb(rng.gen(), rng.gen(), rng.gen()), the generator being at s
RandomColor(s) ==
    rgb(gen(NextRng(s)), gen(NextRng(NextRng(s))),
        gen(NextRng(NextRng(NextRng(s)))))

Skip3(s) == NextRng(NextRng(NextRng(s)))

\* one turn of generate_lights' loop: two draws for the place, three for
\* the color, and the push
PushLight(st) ==
    LET s1 == NextRng(st.rng)
        s2 == NextRng(s1)
    IN  [items |-> Append(st.items,
                          [position |-> LightPosition(gen(s1), gen(s2)),
                           color |-> RandomColor(s2)]),
         rng |-> Skip3(s2)]

RECURSIVE LightsLoop(_)
LightsLoop(st) ==
    IF Len(st.items) = NumLights THEN st ELSE LightsLoop(PushLight(st))

generate_lights(s) == LightsLoop([items |-> <<>>, rng |-> s])

\* one turn of generate_snowflakes' loop: x, y, speed, and the push
PushSnowflake(st) ==
    LET s1 == NextRng(st.rng)
        s2 == NextRng(s1)
        s3 == NextRng(s2)
    IN  [items |-> Append(st.items,
                          [position |-> Point(gen_range(s1, 0, BASE_WIDTH),
                                              gen_range(s2, -100, 0)),
                           speed |-> gen_range(s3, 1, 3)]),
         rng |-> s3]

RECURSIVE SnowflakesLoop(_)
SnowflakesLoop(st) ==
    IF Len(st.items) = NumSnowflakes THEN st
    ELSE SnowflakesLoop(PushSnowflake(st))

\* a faulty variant: the loop over 0..=100
generate_snowflakes_inclusive(s) ==
    PushSnowflake(SnowflakesLoop([items |-> <<>>, rng |-> s]))

generate_snowflakes(s) == SnowflakesLoop([items |-> <<>>, rng |-> s])

(***************************************************************************)
(* State                                                                   *)
(***************************************************************************)
VARIABLES
    lights,           \* ChristmasTreeWidget.lights
    snowflakes,       \* ChristmasTreeWidget.snowflakes
    timer_id,         \* ChristmasTreeWidget.timer_id
    last_update,      \* ChristmasTreeWidget.last_update
    rng,              \* the thread's generator
    next_token,       \* druid's counter of timer tokens
    armed,            \* the tokens of the timers requested and not yet fired
    paint_requested,  \* ctx.request_paint() since the last paint
    size,             \* the widget's size, as layout returned it
    canvas,           \* the draw commands of the last paint
    ticks,            \* history: the ticks run
    connects          \* history: the WindowConnected events delivered

widget == <<lights, snowflakes, timer_id, last_update>>
vars == <<lights, snowflakes, timer_id, last_update, rng, next_token, armed,
          paint_requested, size, canvas, ticks, connects>>

Size(w, h) == [width |-> w, height |-> h]

\* ChristmasTreeWidget::new(), in a window not yet connected
Init ==
    /\ \E seed \in Seeds :
          LET ls == generate_lights(seed)
              fs == generate_snowflakes(ls.rng)
          IN  /\ lights = ls.items
              /\ snowflakes = fs.items
              /\ rng = fs.rng
    /\ timer_id = INVALID
    /\ last_update = 0
    /\ next_token = 1
    /\ armed = {}
    /\ paint_requested = FALSE
    /\ size = Size(FromInt(0), FromInt(0))
    /\ canvas = <<>>
    /\ ticks = 0
    /\ connects = 0

(***************************************************************************)
(* The host's side of EventCtx                                             *)
(***************************************************************************)
\* ctx.request_timer(Duration::from_millis(100)) returns the counter's next
\* token and arms a one-shot timer under it
request_timer == next_token

(***************************************************************************)
(* ChristmasTreeWidget::event, Event::WindowConnected                      *)
(***************************************************************************)
\* a faulty variant: the token of the timer armed is dropped
WindowConnected_token_dropped(cap) ==
    /\ connects < cap
    /\ \E now \in Instants :
          /\ now >= last_update
          /\ last_update' = now
    /\ next_token' = next_token + 1
    /\ armed' = armed \cup {request_timer}
    /\ connects' = connects + 1
    /\ UNCHANGED <<lights, snowflakes, timer_id, rng, paint_requested, size,
                   canvas, ticks>>

WindowConnected(cap) ==
    /\ connects < cap
    /\ \E now \in Instants :
          /\ now >= last_update
          /\ last_update' = now
    /\ timer_id' = request_timer
    /\ next_token' = next_token + 1
    /\ armed' = armed \cup {request_timer}
    /\ connects' = connects + 1
    /\ UNCHANGED <<lights, snowflakes, rng, paint_requested, size, canvas,
                   ticks>>

(***************************************************************************)
(* ChristmasTreeWidget::event, Event::Timer(id): the tick                  *)
(***************************************************************************)
Quarter == RShr(FromInt(1), 2)

\* one turn of the loop over the lights
TickLight(st, light) ==
    LET s1 == NextRng(st.rng)
    IN  IF RLt(gen(s1), Quarter)
        THEN [items |-> Append(st.items,
                               [light EXCEPT !.color = RandomColor(s1)]),
              rng |-> Skip3(s1)]
        ELSE [items |-> Append(st.items, light), rng |-> s1]

RECURSIVE TickLights(_, _)
TickLights(st, ls) ==
    IF Len(st.items) = Len(ls) THEN st
    ELSE TickLights(TickLight(st, ls[Len(st.items) + 1]), ls)

\* a faulty variant: the respawn draws y below the top edge, in [0, 100)
TickSnowflake_below_top(st, flake) ==
    LET y1 == FAdd(flake.position.y, flake.speed)
        s1 == NextRng(st.rng)
        s2 == NextRng(s1)
    IN  IF RLt(FromInt(BASE_HEIGHT), y1)
        THEN [items |-> Append(st.items,
                   [flake EXCEPT !.position =
                        Point(gen_range(s2, 0, BASE_WIDTH),
                              gen_range(s1, 0, 100))]),
              rng |-> s2]
        ELSE [items |-> Append(st.items, [flake EXCEPT !.position.y = y1]),
              rng |-> st.rng]

\* a faulty variant: the respawn at y >= BASE_HEIGHT
TickSnowflake_at_edge(st, flake) ==
    LET y1 == FAdd(flake.position.y, flake.speed)
        s1 == NextRng(st.rng)
        s2 == NextRng(s1)
    IN  IF RLe(FromInt(BASE_HEIGHT), y1)
        THEN [items |-> Append(st.items,
                   [flake EXCEPT !.position =
                        Point(gen_range(s2, 0, BASE_WIDTH),
                              gen_range(s1, -100, 0))]),
              rng |-> s2]
        ELSE [items |-> Append(st.items, [flake EXCEPT !.position.y = y1]),
              rng |-> st.rng]

\* one turn of the loop over the snowflakes
TickSnowflake(st, flake) ==
    LET y1 == FAdd(flake.position.y, flake.speed)
        s1 == NextRng(st.rng)
        s2 == NextRng(s1)
    IN  IF RLt(FromInt(BASE_HEIGHT), y1)
        THEN [items |-> Append(st.items,
                   [flake EXCEPT !.position =
                        Point(gen_range(s2, 0, BASE_WIDTH),
                              gen_range(s1, -100, 0))]),
              rng |-> s2]
        ELSE [items |-> Append(st.items, [flake EXCEPT !.position.y = y1]),
              rng |-> st.rng]

RECURSIVE TickSnowflakes(_, _)
TickSnowflakes(st, fs) ==
    IF Len(st.items) = Len(fs) THEN st
    ELSE TickSnowflakes(TickSnowflake(st, fs[Len(st.items) + 1]), fs)

\* a faulty variant: the token of the event is not compared with timer_id
Timer_any_token(id, cap) ==
    /\ id \in armed
    /\ ticks < cap
    /\ ticks' = ticks + 1
    /\ timer_id' = request_timer
    /\ next_token' = next_token + 1
    /\ armed' = (armed \ {id}) \cup {request_timer}
    /\ paint_requested' = TRUE
    /\ UNCHANGED <<last_update, size, canvas, connects>>
    /\ LET ls == TickLights([items |-> <<>>, rng |-> rng], lights)
           fs == TickSnowflakes([items |-> <<>>, rng |-> ls.rng], snowflakes)
       IN  /\ rng' = fs.rng
           /\ lights' = ls.items
           /\ snowflakes' = fs.items

\* a faulty variant: the tick does not request the next timer
Timer_not_rearmed(id, cap) ==
    /\ id \in armed
    /\ IF id = timer_id
       THEN /\ ticks < cap
            /\ ticks' = ticks + 1
            /\ armed' = armed \ {id}
            /\ paint_requested' = TRUE
            /\ UNCHANGED <<timer_id, next_token, last_update, size, canvas,
                           connects>>
            /\ LET ls == TickLights([items |-> <<>>, rng |-> rng], lights)
                   fs == TickSnowflakes([items |-> <<>>, rng |-> ls.rng],
                                        snowflakes)
               IN  /\ rng' = fs.rng
                   /\ lights' = ls.items
                   /\ snowflakes' = fs.items
       ELSE /\ armed' = armed \ {id}
            /\ UNCHANGED <<lights, snowflakes, timer_id, last_update, rng,
                           next_token, paint_requested, size, canvas, ticks,
                           connects>>

\* the host fires the armed timer id and delivers Event::Timer(id)
Timer(id, cap) ==
    /\ id \in armed
    /\ IF id = timer_id
       THEN /\ ticks < cap
            /\ ticks' = ticks + 1
            /\ timer_id' = request_timer
            /\ next_token' = next_token + 1
            /\ armed' = (armed \ {id}) \cup {request_timer}
            /\ paint_requested' = TRUE
            /\ UNCHANGED <<last_update, size, canvas, connects>>
            /\ LET ls == TickLights([items |-> <<>>, rng |-> rng], lights)
                   fs == TickSnowflakes([items |-> <<>>, rng |-> ls.rng],
                                        snowflakes)
               IN  /\ rng' = fs.rng
                   /\ lights' = ls.items
                   /\ snowflakes' = fs.items
       ELSE /\ armed' = armed \ {id}
            /\ UNCHANGED <<lights, snowflakes, timer_id, last_update, rng,
                           next_token, paint_requested, size, canvas, ticks,
                           connects>>

(***************************************************************************)
(* ChristmasTreeWidget::layout                                             *)
(***************************************************************************)
\* BoxConstraints, loose or tight, whose greatest size is one of S
Constraints(S) ==
    {[min |-> m, max |-> M] : m \in {<<0, 0>>} \cup S, M \in S} \cap
    {bc \in [min : {<<0, 0>>} \cup S, max : S] : bc.min \in {<<0, 0>>, bc.max}}

layout(bc) == Size(FromInt(bc.max[1]), FromInt(bc.max[2]))

Layout(bc) ==
    /\ size' = layout(bc)
    /\ UNCHANGED <<lights, snowflakes, timer_id, last_update, rng,
                   next_token, armed, paint_requested, canvas, ticks,
                   connects>>

(***************************************************************************)
(* ChristmasTreeWidget::paint                                              *)
(***************************************************************************)
\* a faulty variant: the greater of the two ratios
scale_max(bounds) ==
    LET sx == FDivInt(bounds.width, BASE_WIDTH)
        sy == FDivInt(bounds.height, BASE_HEIGHT)
    IN  IF RLt(sx, sy) THEN sy ELSE sx

\* the uniform scale and the centering offsets of a surface of size bounds
scale(bounds) ==
    FMin(FDivInt(bounds.width, BASE_WIDTH), FDivInt(bounds.height, BASE_HEIGHT))
offset_x(bounds) ==
    RShr(FSub(bounds.width, FMulInt(scale(bounds), BASE_WIDTH)), 1)

offset_y(bounds) ==
    RShr(FSub(bounds.height, FMulInt(scale(bounds), BASE_HEIGHT)), 1)

Fill(shape, color) == [op |-> "fill", shape |-> shape, color |-> color]
\* Size::to_rect and Rect::from_center_size
to_rect(bounds) == [kind |-> "to_rect", size |-> bounds]
from_center_size(center, w, h) ==
    [kind |-> "from_center_size", center |-> center,
     size |-> Size(FromInt(w), FromInt(h))]
BezPath(points) == [kind |-> "path", points |-> points]

\* a faulty variant: the lights drawn before the trunk and the tree
PaintCommands_lights_first(bounds) ==
    <<Fill(to_rect(bounds), rgb8(135, 206, 235)),
      [op |-> "save"],
      [op |-> "translate", x |-> offset_x(bounds), y |-> offset_y(bounds)],
      [op |-> "scale", s |-> scale(bounds)]>>
    \o [i \in 1..Len(snowflakes) |->
           Fill(from_center_size(snowflakes[i].position, 4, 4), WHITE)]
    \o [i \in 1..Len(lights) |->
           Fill(from_center_size(lights[i].position, 8, 8), lights[i].color)]
    \o <<Fill(from_center_size(Point(FromInt(BASE_WIDTH \div 2),
                                     FromInt(BASE_HEIGHT - 60)), 30, 60),
              rgb8(139, 69, 19)),
         Fill(BezPath(<<top, left, right>>), rgb8(0, 100, 0))>>
    \o <<[op |-> "restore"]>>

\* the draw commands of one call of paint, in the order of the calls
PaintCommands(bounds) ==
    <<Fill(to_rect(bounds), rgb8(135, 206, 235)),
      [op |-> "save"],
      [op |-> "translate", x |-> offset_x(bounds), y |-> offset_y(bounds)],
      [op |-> "scale", s |-> scale(bounds)]>>
    \o [i \in 1..Len(snowflakes) |->
           Fill(from_center_size(snowflakes[i].position, 4, 4), WHITE)]
    \o <<Fill(from_center_size(Point(FromInt(BASE_WIDTH \div 2),
                                     FromInt(BASE_HEIGHT - 60)), 30, 60),
              rgb8(139, 69, 19)),
         Fill(BezPath(<<top, left, right>>), rgb8(0, 100, 0))>>
    \o [i \in 1..Len(lights) |->
           Fill(from_center_size(lights[i].position, 8, 8), lights[i].color)]
    \o <<[op |-> "restore"]>>

\* a faulty variant: paint moves the snowflakes it draws
Paint_moves_snow ==
    /\ RLt(FromInt(0), size.width)
    /\ RLt(FromInt(0), size.height)
    /\ canvas' = PaintCommands(size)
    /\ paint_requested' = FALSE
    /\ LET fs == TickSnowflakes([items |-> <<>>, rng |-> rng], snowflakes)
       IN  snowflakes' = fs.items /\ rng' = fs.rng
    /\ UNCHANGED <<lights, timer_id, last_update, next_token, armed, size,
                   ticks, connects>>

Paint ==
    /\ RLt(FromInt(0), size.width)
    /\ RLt(FromInt(0), size.height)
    /\ canvas' = PaintCommands(size)
    /\ paint_requested' = FALSE
    /\ UNCHANGED <<lights, snowflakes, timer_id, last_update, rng,
                   next_token, armed, size, ticks, connects>>

(***************************************************************************)
(* Specifications                                                          *)
(***************************************************************************)
\* every event the host may deliver, in any order
Next ==
    \/ WindowConnected(MaxConnects)
    \/ \E id \in armed : Timer(id, MaxTicks)
    \/ \E bc \in Constraints({<<600, 600>>, <<300, 600>>}) : Layout(bc)
    \/ Paint

Spec == Init /\ [][Next]_vars

\* The host fires every armed timer in the end.  Fires(id) is the step
\* Timer(id, MaxTicks) as it shows on armed: it has the guard of Timer, and
\* no other step of Next takes id out of armed.
Tokens == 1..(MaxTicks + MaxConnects)
Fires(id) ==
    /\ id \in armed
    /\ id = timer_id => ticks < MaxTicks
    /\ armed' \in {armed \ {id}, (armed \ {id}) \cup {request_timer}}
LiveSpec == Spec /\ \A id \in Tokens : WF_armed(Fires(id))

\* the long run: one WindowConnected, then the timer
LongNext ==
    \/ WindowConnected(1)
    \/ \E id \in armed : Timer(id, MaxLongTicks)

LongSpec == Init /\ [][LongNext]_vars

\* the window resized and repainted, the scene at rest
ViewExtents == {1, 21, 55, 300, 600, 1200}
ViewNext ==
    \/ \E bc \in Constraints(ViewExtents \X ViewExtents) : Layout(bc)
    \/ Paint

ViewSpec == Init /\ [][ViewNext]_vars

(***************************************************************************)
(* Properties                                                              *)
(***************************************************************************)
Flakes == 1..Len(snowflakes)
Bulbs == 1..Len(lights)

\* the step ran a tick
TickStep == ticks' = ticks + 1
\* the step fired the one-shot timer id
Fired(id) == id \in armed /\ id \notin armed'
\* the step was a call of paint
PaintStep == canvas' # canvas \/ (paint_requested /\ ~paint_requested')

\* C1: the lights are always 50 and the snowflakes always 100, whatever
\* events the host delivers.
C1_Population ==
    Len(lights) = NumLights /\ Len(snowflakes) = NumSnowflakes

C1_Witness ==
    /\ ticks >= 2 /\ connects >= 2 /\ canvas # <<>>
    /\ armed = {timer_id}
    /\ Len(lights) = 50 /\ Len(snowflakes) = 100

InField(p) ==
    /\ RLe(FromInt(-100), p.y) /\ RLe(p.y, FromInt(BASE_HEIGHT))
    /\ RLe(FromInt(0), p.x) /\ RLt(p.x, FromInt(BASE_WIDTH))
AboveField(p) ==
    /\ RLe(FromInt(-100), p.y) /\ RLt(p.y, FromInt(0))
    /\ RLe(FromInt(0), p.x) /\ RLt(p.x, FromInt(BASE_WIDTH))
\* a snowflake falls by its speed, which is positive: its y drops only
\* when the tick respawned it
Respawned(i) == RLt(snowflakes'[i].position.y, snowflakes[i].position.y)

\* C2: every snowflake always has -100 <= y <= 600 and 0 <= x < 600, and
\* a snowflake the tick respawned has -100 <= y < 0 and 0 <= x < 600.
C2_SnowflakeBounds ==
    /\ [](\A i \in Flakes : InField(snowflakes[i].position))
    /\ [][\A i \in Flakes :
            Respawned(i) => AboveField(snowflakes'[i].position)]_vars

\* after 100 ticks a snowflake is above the field only if it was respawned
C2_Witness ==
    /\ ticks > 100
    /\ \E i \in Flakes : RLt(snowflakes[i].position.y, FromInt(0))

\* C3: a timer firing whose token is not timer_id changes nothing of the
\* widget, arms no timer and requests no paint.
C3_StaleTimerIgnored ==
    [][\A id \in armed :
          (id # timer_id /\ Fired(id)) =>
              /\ UNCHANGED <<lights, snowflakes, timer_id, last_update>>
              /\ armed' = armed \ {id}
              /\ next_token' = next_token
              /\ paint_requested' = paint_requested
              /\ ticks' = ticks]_vars

\* both timers of two connects fired, the stale one without a tick
C3_Witness ==
    connects = 2 /\ ticks = 0 /\ armed = {timer_id} /\ next_token = 3

\* C4: a firing of the timer timer_id names runs the tick, arms exactly
\* one new timer, whose token it stores in timer_id, and requests a paint;
\* with every armed timer fired in the end, the next tick always comes.
C4_NeverStalls ==
    /\ [][Fired(timer_id) =>
            /\ TickStep
            /\ \A i \in Flakes :
                  snowflakes'[i].position # snowflakes[i].position
            /\ armed' = (armed \ {timer_id}) \cup {timer_id'}
            /\ timer_id' \notin armed
            /\ paint_requested']_vars
    /\ \A n \in 0..(MaxTicks - 1) :
          (connects > 0 /\ ticks = n) ~> (ticks = n + 1)

C4_Witness ==
    ticks >= 2 /\ paint_requested /\ timer_id \in armed /\ connects = 1

\* C5: a tick moves each snowflake down by its speed; past 600 the flake
\* is back above the field, at 600 or less it keeps its x; no step changes
\* a speed.  (The sums of the values drawn here are exact in f64.)
C5_FallRule ==
    [][/\ \A i \in Flakes : snowflakes'[i].speed = snowflakes[i].speed
       /\ TickStep =>
            \A i \in Flakes :
                LET y1 == RAdd(snowflakes[i].position.y, snowflakes[i].speed)
                IN  IF RLt(FromInt(600), y1)
                    THEN AboveField(snowflakes'[i].position)
                    ELSE snowflakes'[i].position =
                             Point(snowflakes[i].position.x, y1)]_vars

\* one snowflake rests at exactly 600, another has been respawned
C5_Witness ==
    /\ \E i \in Flakes : snowflakes[i].position.y = FromInt(600)
    /\ ticks > 100
    /\ \E i \in Flakes : RLt(snowflakes[i].position.y, FromInt(0))

(* the transform of the last paint *)
PaintedBounds == canvas[1].shape.size
PaintedScale == canvas[4].s
PaintedOffsetX == canvas[3].x
PaintedOffsetY == canvas[3].y
PaintedSide == RMulInt(PaintedScale, 600)
RMax(x, y) == IF RLt(x, y) THEN y ELSE x
RMin(x, y) == IF RLt(y, x) THEN y ELSE x
RAbs(x) == Val(FALSE, x.mag)
Within(x, y, e) == RLe(RAbs(RSub(x, y)), e)
Zero == FromInt(0)

\* C6 as claimed: the mapped square lies in the viewport, centered, with
\* offsets that are never negative and one of them zero.
C6_ExactFit ==
    canvas # <<>> =>
        /\ RLt(Zero, PaintedScale)
        /\ RLe(Zero, PaintedOffsetX) /\ RLe(Zero, PaintedOffsetY)
        /\ PaintedOffsetX = Zero \/ PaintedOffsetY = Zero
        /\ RLe(RAdd(PaintedOffsetX, PaintedSide), PaintedBounds.width)
        /\ RLe(RAdd(PaintedOffsetY, PaintedSide), PaintedBounds.height)
        /\ RSub(PaintedBounds.width, RAdd(PaintedOffsetX, PaintedSide))
               = PaintedOffsetX
        /\ RSub(PaintedBounds.height, RAdd(PaintedOffsetY, PaintedSide))
               = PaintedOffsetY

\* the rounding allowed: 2^-50 of the larger side of the viewport
Slack == RShr(RMax(PaintedBounds.width, PaintedBounds.height), 50)

\* C6, amended: the same within rounding.  600 * scale is the smaller side
\* and twice an offset is the room left, each within Slack; no offset is
\* below -Slack, one is within Slack of zero, the square ends within Slack
\* of the viewport and the margins agree within Slack; the two viewports
\* the claim names come out exact.
C6_FitWithinRounding ==
    canvas # <<>> =>
        LET w == PaintedBounds.width
            h == PaintedBounds.height
            ox == PaintedOffsetX
            oy == PaintedOffsetY
        IN  /\ RLt(Zero, PaintedScale)
            /\ Within(PaintedSide, RMin(w, h), Slack)
            /\ Within(RMulInt(ox, 2), RSub(w, PaintedSide), Slack)
            /\ Within(RMulInt(oy, 2), RSub(h, PaintedSide), Slack)
            /\ RLe(RNeg(Slack), ox) /\ RLe(RNeg(Slack), oy)
            /\ RLe(RAbs(ox), Slack) \/ RLe(RAbs(oy), Slack)
            /\ RLe(RAdd(ox, PaintedSide), RAdd(w, Slack))
            /\ RLe(RAdd(oy, PaintedSide), RAdd(h, Slack))
            /\ Within(RSub(w, RAdd(ox, PaintedSide)), ox, Slack)
            /\ Within(RSub(h, RAdd(oy, PaintedSide)), oy, Slack)
            /\ (w = FromInt(1200) /\ h = FromInt(600)) =>
                   /\ PaintedScale = FromInt(1)
                   /\ ox = FromInt(300) /\ oy = Zero
            /\ (w = FromInt(300) /\ h = FromInt(600)) =>
                   /\ PaintedScale = RShr(FromInt(1), 1)
                   /\ ox = Zero /\ oy = FromInt(150)

\* a viewport whose fit is not exact has been painted
C6_Witness ==
    /\ canvas # <<>>
    /\ PaintedBounds = Size(FromInt(21), FromInt(21))
    /\ PaintedOffsetX.neg

\* 5x + 2y = 1600 and 5x - 2y = 1400 are the slanted sides of the tree,
\* y = 550 is its base
InTriangle(p, e) ==
    /\ RLe(p.y, RAdd(FromInt(550), e))
    /\ RLe(RSub(FromInt(1600), e), RAdd(RMulInt(p.x, 5), RMulInt(p.y, 2)))
    /\ RLe(RSub(RMulInt(p.x, 5), RMulInt(p.y, 2)), RAdd(FromInt(1400), e))

C8_PaintReadOnly ==
    [][PaintStep =>
          /\ UNCHANGED <<lights, snowflakes, timer_id, last_update>>
          /\ UNCHANGED <<armed, next_token>>
          /\ (canvas # <<>> /\ ~paint_requested
                /\ canvas[1].shape.size = size) => canvas' = canvas]_vars

C8_Witness ==
    canvas # <<>> /\ ticks >= 1 /\ ~paint_requested /\ connects >= 1

Square(c, n) ==
    /\ c.op = "fill"
    /\ c.shape.kind = "from_center_size"
    /\ c.shape.size = Size(FromInt(n), FromInt(n))

\* C9: a paint emits the background, then between save and restore the
\* translation, the scale, the 100 snowflakes, the trunk, the tree and the
\* 50 lights, in this order.
C9_DrawOrder ==
    canvas # <<>> =>
        /\ Len(canvas) = 4 + NumSnowflakes + 2 + NumLights + 1
        /\ canvas[1].op = "fill" /\ canvas[1].shape.kind = "to_rect"
        /\ canvas[1].color = <<135, 206, 235>>
        /\ canvas[2].op = "save"
        /\ canvas[3].op = "translate"
        /\ canvas[4].op = "scale"
        /\ \A i \in 1..NumSnowflakes :
              /\ Square(canvas[4 + i], 4)
              /\ canvas[4 + i].color = <<255, 255, 255>>
              /\ ~paint_requested =>
                    canvas[4 + i].shape.center = snowflakes[i].position
        /\ LET trunk == canvas[4 + NumSnowflakes + 1]
               tree  == canvas[4 + NumSnowflakes + 2]
           IN  /\ trunk.op = "fill"
               /\ trunk.shape = [kind |-> "from_center_size",
                                 center |-> Point(FromInt(300), FromInt(540)),
                                 size |-> Size(FromInt(30), FromInt(60))]
               /\ trunk.color = <<139, 69, 19>>
               /\ tree.op = "fill"
               /\ tree.shape = [kind |-> "path",
                                points |-> <<Point(FromInt(300), FromInt(50)),
                                             Point(FromInt(100), FromInt(550)),
                                             Point(FromInt(500), FromInt(550))>>]
               /\ tree.color = <<0, 100, 0>>
        /\ \A i \in 1..NumLights :
              /\ Square(canvas[4 + NumSnowflakes + 2 + i], 8)
              /\ canvas[4 + NumSnowflakes + 2 + i].shape.center
                     = lights[i].position
              /\ ~paint_requested =>
                    canvas[4 + NumSnowflakes + 2 + i].color = lights[i].color
        /\ canvas[Len(canvas)].op = "restore"
        /\ \A k \in 3..(Len(canvas) - 1) : canvas[k].op \notin {"save", "restore"}

C9_Witness ==
    canvas # <<>> /\ ticks >= 2 /\ ~paint_requested /\ connects >= 2

\* C10: before the first WindowConnected timer_id is INVALID, no timer is
\* armed and no step changes the scene; after it exactly one armed timer
\* carries timer_id, the last one armed, and only its firing runs a tick,
\* however many WindowConnected came.
C10_OneLiveTimer ==
    /\ [](/\ connects = 0 =>
                timer_id = INVALID /\ armed = {} /\ ticks = 0
          /\ connects > 0 =>
                /\ timer_id # INVALID /\ timer_id \in armed
                /\ timer_id = next_token - 1
                /\ INVALID \notin armed)
    /\ [][/\ connects' = 0 => UNCHANGED <<lights, snowflakes>>
          /\ ticks' # ticks => Fired(timer_id) /\ ticks' = ticks + 1]_vars

C10_Witness ==
    connects = 2 /\ Cardinality(armed) = 2 /\ ticks >= 1
====
